---- MODULE Spec2Model ----
(***************************************************************************)
(* Model of the signal parser (trading/signal.py), the risk manager        *)
(* (trading/risk.py, stored as src/trading/trader.py) and the message      *)
(* handlers (trading/bot.py, stored as src/trading/symbol_mapper.py) of    *)
(* the Bybit Telegram trading bot.                                         *)
(*                                                                         *)
(* Python values are modelled as follows.                                  *)
(*   - str: a TLA+ string; a character is a string of length 1.  The       *)
(*     non-ASCII glyphs of the messages are written with ASCII stand-ins:  *)
(*       "}" is U+1F4C9 (chart decreasing), "{" is U+1F4C8 (chart          *)
(*       increasing), "!" is any other pictograph (check mark, TOP arrow). *)
(*   - float: an exact rational [n, d] (d > 0, lowest terms) in the risk   *)
(*     manager, and a decimal [m, e] (value m / 10^e, no trailing zero) in *)
(*     the parser, where floats only come from float(<digits and dots>).   *)
(*   - None, a number, a non-numeric value: records tagged by "tag".       *)
(*   - a raised exception: a record [raised |-> TRUE, ...] handed up to    *)
(*     the enclosing try/except of the source.                             *)
(***************************************************************************)
EXTENDS Integers, Sequences, FiniteSets, TLC

VARIABLES
    op,     \* the operation invoked: "size", "validate" or "parse"; "bot" when
            \* the bot runs its handlers
    args,   \* its arguments
    ret,    \* what it returned (Pending before the call)
    frame,  \* the local variables of the call that the properties observe
    config, \* the notification switches of utils.config.Config the handlers read
    runs    \* the runs of handle_new_message, in the order the messages arrived

vars == <<op, args, ret, frame, config, runs>>

----------------------------------------------------------------------------
(* Python values *)

None == [tag |-> "None"]
Str == [tag |-> "str"]
Num(v) == [tag |-> "num", v |-> v]
IsNum(x) == x.tag = "num"
Pending == [tag |-> "pending"]
NoFrame == [tag |-> "noframe"]

----------------------------------------------------------------------------
(* Exact rationals standing for the floats of the risk manager *)

Abs(x) == IF x < 0 THEN -x ELSE x

RECURSIVE Gcd(_, _)
Gcd(a, b) == IF b = 0 THEN a ELSE Gcd(b, a % b)

Q(n, d) ==
    LET g == Gcd(Abs(n), Abs(d))
        s == IF d < 0 THEN -1 ELSE 1
    IN  [n |-> (s * n) \div g, d |-> (s * d) \div g]

QInt(i) == [n |-> i, d |-> 1]
QMul(a, b) == Q(a.n * b.n, a.d * b.d)
QDiv(a, b) == Q(a.n * b.d, a.d * b.n)
QSub(a, b) == Q(a.n * b.d - b.n * a.d, a.d * b.d)
QAbs(a) == [n |-> Abs(a.n), d |-> a.d]
QLt(a, b) == a.n * b.d < b.n * a.d
QLe(a, b) == a.n * b.d <= b.n * a.d
QZero(a) == a.n = 0

RECURSIVE Pow10(_)
Pow10(k) == IF k = 0 THEN 1 ELSE 10 * Pow10(k - 1)

\* round(x, ndigits): the nearest multiple of 10^-ndigits.  A value lying
\* exactly halfway between two multiples has no exact binary float, so the
\* float that stands for it lies on either side: both neighbours are outcomes.
round(x, ndigits) ==
    LET s == x.n * Pow10(ndigits)
        q == s \div x.d
        r == s % x.d
    IN  IF 2 * r = x.d THEN {Q(q, Pow10(ndigits)), Q(q + 1, Pow10(ndigits))}
        ELSE IF 2 * r > x.d THEN {Q(q + 1, Pow10(ndigits))}
        ELSE {Q(q, Pow10(ndigits))}

----------------------------------------------------------------------------
(* RiskManager *)

DEFAULT_RISK_PERCENT == 2
MAX_LEVERAGE == 20

\* self.default_risk_percent = default_risk_percent / 100.0
default_risk_percent == Q(DEFAULT_RISK_PERCENT, 100)
max_leverage == MAX_LEVERAGE

\* The module imports typing and the logger only: the name math is unbound.
MathImported == FALSE

ZeroDivision == [raised |-> TRUE, text |-> "float division by zero"]
TypeErrorMin == [raised |-> TRUE, text |-> "'<' not supported between instances"]
TypeErrorMul == [raised |-> TRUE, text |-> "unsupported operand type(s) for *"]

\* Lines 49-69: min_notional and precision from symbol_info, defaults when
\* the lookup leaves them None.  symbol_info is None, or a dict whose keys
\* lotSizeFilter (with qtyStep = 10^-k given as Num(k), or malformed) and
\* minOrderQty (a rational, or malformed) are each present or absent (None).
SymbolInfoFields(symbol_info, entry_price) ==
    LET truthy == symbol_info.tag = "dict"
                  /\ (symbol_info.lotSizeFilter # None \/ symbol_info.minOrderQty # None)
        hasLot == truthy /\ symbol_info.lotSizeFilter # None
        hasMin == truthy /\ symbol_info.minOrderQty # None
        \* precision = int(round(-math.log(float(qtyStep), 10), 0))
        lotRaises == hasLot /\ (~MathImported \/ ~IsNum(symbol_info.lotSizeFilter))
        precision == IF hasLot /\ ~lotRaises THEN Num(symbol_info.lotSizeFilter.v) ELSE None
        \* min_notional = float(minOrderQty) * entry_price, skipped once the try block raised
        minRaises == hasMin /\ ~IsNum(symbol_info.minOrderQty)
        min_notional == IF hasMin /\ ~lotRaises /\ ~minRaises
                        THEN Num(QMul(symbol_info.minOrderQty.v, QInt(entry_price)))
                        ELSE None
    IN  [min_notional |-> IF min_notional = None THEN QInt(10) ELSE min_notional.v,
         precision |-> IF precision = None THEN 3 ELSE precision.v,
         from_info |-> [min_notional |-> min_notional # None, precision |-> precision # None]]

\* SizeBeforeNotional with the leverage left out of the stop-loss branch.
SizeBeforeNotionalUnlevered(account_balance, entry_price, stop_loss, effective_leverage, risk_amount) ==
    IF IsNum(stop_loss) /\ stop_loss.v # 0 /\ stop_loss.v > 0
    THEN LET risk_per_unit == Abs(entry_price - stop_loss.v)
         IN  IF risk_per_unit <= 0
             THEN [raised |-> FALSE, branch |-> "degenerate",
                   v |-> QDiv(QMul(QMul(QInt(account_balance), Q(1, 10)), QInt(effective_leverage)),
                              QInt(entry_price))]
             ELSE [raised |-> FALSE, branch |-> "stop",
                   v |-> QDiv(risk_amount, QInt(risk_per_unit))]
    ELSE IF entry_price = 0 THEN ZeroDivision
         ELSE [raised |-> FALSE, branch |-> "conservative",
               v |-> QDiv(QMul(QMul(QInt(account_balance), Q(5, 100)), QInt(effective_leverage)),
                          QInt(entry_price))]

\* Lines 71-91: the size before the minimum-notional step, or the exception
\* raised on the way.
SizeBeforeNotional(account_balance, entry_price, stop_loss, effective_leverage, risk_amount) ==
    IF IsNum(stop_loss) /\ stop_loss.v # 0 /\ stop_loss.v > 0
    THEN LET risk_per_unit == Abs(entry_price - stop_loss.v)
         IN  IF risk_per_unit <= 0
             THEN IF entry_price = 0 THEN ZeroDivision
                  ELSE [raised |-> FALSE, branch |-> "degenerate",
                        v |-> QDiv(QMul(QMul(QInt(account_balance), Q(1, 10)), QInt(effective_leverage)),
                                   QInt(entry_price))]
             ELSE [raised |-> FALSE, branch |-> "stop",
                   v |-> QDiv(QMul(risk_amount, QInt(effective_leverage)), QInt(risk_per_unit))]
    ELSE IF entry_price = 0 THEN ZeroDivision
         ELSE [raised |-> FALSE, branch |-> "conservative",
               v |-> QDiv(QMul(QMul(QInt(account_balance), Q(5, 100)), QInt(effective_leverage)),
                          QInt(entry_price))]

\* Lines 93-98: raise the size to min_notional / entry_price.
EnsureMinNotional(position_size, entry_price, min_notional) ==
    LET notional_value == QMul(position_size, QInt(entry_price))
    IN  IF QLt(notional_value, min_notional)
        THEN IF entry_price = 0 THEN ZeroDivision
             ELSE [raised |-> FALSE, v |-> QDiv(min_notional, QInt(entry_price))]
        ELSE [raised |-> FALSE, v |-> position_size]

\* a fallback that returns no size at all: 0 with the error message
SizingFallbackZero(e) ==
    {[ret |-> [size |-> QInt(0), message |-> "Error in position sizing: " \o e.text],
      frame |-> [path |-> "except"]]}

\* except Exception as e: return 0.01, f"Error in position sizing: {str(e)}"
SizingFallback(e) ==
    {[ret |-> [size |-> Q(1, 100), message |-> "Error in position sizing: " \o e.text],
      frame |-> [path |-> "except"]]}

\* The body of the try block, lines 41-99, up to the rounding: the exception
\* raised, or the size to round and the local variables.
SizingBody(account_balance, entry_price, stop_loss, leverage, symbol_info) ==
    IF ~IsNum(leverage) THEN TypeErrorMin
    ELSE IF ~IsNum(account_balance) THEN TypeErrorMul
    ELSE
    LET effective_leverage == IF leverage.v < max_leverage THEN leverage.v ELSE max_leverage
        risk_amount == QMul(QInt(account_balance.v), default_risk_percent)
        info == SymbolInfoFields(symbol_info, entry_price)
        before == SizeBeforeNotional(account_balance.v, entry_price, stop_loss,
                                     effective_leverage, risk_amount)
    IN  IF before.raised THEN before
        ELSE LET after == EnsureMinNotional(before.v, entry_price, info.min_notional)
             IN  IF after.raised THEN after
                 ELSE [raised |-> FALSE,
                       unrounded |-> after.v,
                       frame |-> [path |-> "normal",
                                  effective_leverage |-> effective_leverage,
                                  risk_amount |-> risk_amount,
                                  branch |-> before.branch,
                                  position_size |-> before.v,
                                  min_notional |-> info.min_notional,
                                  precision |-> info.precision,
                                  from_info |-> info.from_info]]

\* The (size, message) pairs the call can return, with the locals observed.
calculate_position_size(account_balance, entry_price, stop_loss, leverage, symbol_info) ==
    LET r == SizingBody(account_balance, entry_price, stop_loss, leverage, symbol_info)
    IN  IF r.raised THEN SizingFallback(r)
        ELSE {[ret |-> [size |-> position_size,
                        message |-> "Position size calculated successfully"],
               frame |-> r.frame] : position_size \in round(r.unrounded, r.frame.precision)}

\* a verdict whose thresholds are inclusive: rejected from 80 on, warned from
\* 50 on
LossVerdictInclusive(potential_loss_pct) ==
    IF QLe(QInt(80), potential_loss_pct)
    THEN [ok |-> FALSE, message |-> "Potential loss is too high"]
    ELSE IF QLe(QInt(50), potential_loss_pct)
    THEN [ok |-> TRUE, message |-> "Warning: High risk trade"]
    ELSE [ok |-> TRUE, message |-> "Risk parameters acceptable"]

\* Lines 140-148: reject above 80, warn above 50, else accept.
LossVerdict(potential_loss_pct) ==
    IF QLt(QInt(80), potential_loss_pct)
    THEN [ok |-> FALSE, message |-> "Potential loss is too high"]
    ELSE IF QLt(QInt(50), potential_loss_pct)
    THEN [ok |-> TRUE, message |-> "Warning: High risk trade"]
    ELSE [ok |-> TRUE, message |-> "Risk parameters acceptable"]

\* Lines 136-148: ZeroDivisionError on entry_price = 0 is caught at line 150.
PotentialLossVerdict(entry_price, stop_loss, leverage) ==
    IF entry_price = 0
    THEN [ok |-> FALSE, message |-> "Error validating risk"]
    ELSE LET price_move_pct == QMul(Q(Abs(entry_price - stop_loss), entry_price), QInt(100))
             potential_loss_pct == QMul(price_move_pct, QInt(leverage))
         IN  LossVerdict(potential_loss_pct)

\* validate_risk_parameters with the stop-loss test made before the leverage test.
validate_risk_parameters_stop_first(signal, account_balance) ==
    LET entry_price == signal.entry_price
        stop_loss == signal.stop_loss
        leverage == signal.leverage
    IN  IF stop_loss = None \/ stop_loss.v = 0
        THEN [ok |-> TRUE, message |-> "Warning: No stop loss provided. Trade executed with default protection."]
        ELSE IF ~IsNum(leverage)
        THEN [ok |-> FALSE, message |-> "Error validating risk"]
        ELSE IF leverage.v > max_leverage
        THEN [ok |-> FALSE, message |-> "Leverage exceeds maximum allowed"]
        ELSE PotentialLossVerdict(entry_price, stop_loss.v, leverage.v)

\* validate_risk_parameters, lines 123-152.  signal is the dict of the call:
\* entry_price a number, stop_loss None or a number, leverage a number or a
\* non-numeric value (the comparison with max_leverage then raises, and the
\* except clause rejects).  The message is modelled by its fixed text, without
\* the numbers formatted into it.
validate_risk_parameters(signal, account_balance) ==
    LET entry_price == signal.entry_price
        stop_loss == signal.stop_loss
        leverage == signal.leverage
    IN  IF ~IsNum(leverage)
        THEN [ok |-> FALSE, message |-> "Error validating risk"]
        ELSE IF leverage.v > max_leverage
        THEN [ok |-> FALSE, message |-> "Leverage exceeds maximum allowed"]
        ELSE IF stop_loss = None \/ stop_loss.v = 0
        THEN [ok |-> TRUE, message |-> "Warning: No stop loss provided. Trade executed with default protection."]
        ELSE PotentialLossVerdict(entry_price, stop_loss.v, leverage.v)

----------------------------------------------------------------------------
(* Python str operations *)

UpperLetters == "ABCDEFGHIJKLMNOPQRSTUVWXYZ"
LowerLetters == "abcdefghijklmnopqrstuvwxyz"
DigitChars == "0123456789"

\* s[a - 1 : b] for 1 <= a: the characters a..b of s that exist
Slice(s, a, b) ==
    LET lo == IF a < 1 THEN 1 ELSE a
        hi == IF b > Len(s) THEN Len(s) ELSE b
    IN  IF lo > hi THEN "" ELSE SubSeq(s, lo, hi)

\* the character at index i, "" when there is none
Char(s, i) == Slice(s, i, i)

Upper == {Char(UpperLetters, i) : i \in 1..Len(UpperLetters)}
Digit == {Char(DigitChars, i) : i \in 1..Len(DigitChars)}
\* the class [A-Z0-9]
UpperOrDigit == Upper \cup Digit
DigitOrDot == Digit \cup {"."}
\* \s, and what strip() and split() take for white space
Space == {" ", "\t", "\r", "\n"}

Ok(v) == [raised |-> FALSE, v |-> v]
Raised == [raised |-> TRUE]

LowerMap ==
    [c \in Upper |->
        Char(LowerLetters, CHOOSE i \in 1..Len(UpperLetters) : Char(UpperLetters, i) = c)]

LowerChar(c) == IF c \in Upper THEN LowerMap[c] ELSE c

\* s.lower()
RECURSIVE lower(_)
lower(s) == IF s = "" THEN "" ELSE LowerChar(Head(s)) \o lower(Tail(s))

\* ''.join(c for c in s if c in set), one half of s after the other
RECURSIVE Keep(_, _)
Keep(s, set) ==
    IF Len(s) <= 1 THEN (IF s \in set THEN s ELSE "")
    ELSE LET mid == Len(s) \div 2
         IN  Keep(Slice(s, 1, mid), set) \o Keep(Slice(s, mid + 1, Len(s)), set)

\* the least index >= from at which sub occurs in s, 0 when there is none
RECURSIVE IndexOf(_, _, _)
IndexOf(s, sub, from) ==
    IF from + Len(sub) - 1 > Len(s) THEN 0
    ELSE IF Slice(s, from, from + Len(sub) - 1) = sub THEN from
    ELSE IndexOf(s, sub, from + 1)

\* sub in s
Contains(s, sub) == IndexOf(s, sub, 1) # 0

\* the index of the last character of the run of set characters that starts
\* at i (i - 1 when the character at i is not in set)
RECURSIVE SpanEnd(_, _, _)
SpanEnd(s, i, set) ==
    IF i <= Len(s) /\ Char(s, i) \in set THEN SpanEnd(s, i + 1, set) ELSE i - 1

\* the index of the first character of the run of set characters that ends at i
RECURSIVE SpanStart(_, _, _)
SpanStart(s, i, set) ==
    IF i >= 1 /\ Char(s, i) \in set THEN SpanStart(s, i - 1, set) ELSE i + 1

\* s.split(sep), sep one character
RECURSIVE split(_, _)
split(s, sep) ==
    LET i == IndexOf(s, sep, 1)
    IN  IF i = 0 THEN <<s>>
        ELSE <<Slice(s, 1, i - 1)>> \o split(Slice(s, i + 1, Len(s)), sep)

\* s.strip()
RECURSIVE lstrip(_)
lstrip(s) == IF s # "" /\ Head(s) \in Space THEN lstrip(Tail(s)) ELSE s

RECURSIVE rstrip(_)
rstrip(s) ==
    IF s # "" /\ Char(s, Len(s)) \in Space THEN rstrip(Slice(s, 1, Len(s) - 1)) ELSE s

strip(s) == rstrip(lstrip(s))

\* s.split(): the maximal runs of characters that are not white space
RECURSIVE words(_)
words(s) ==
    LET t == lstrip(s)
        e == SpanEnd(t, 1, {Char(t, i) : i \in 1..Len(t)} \ Space)
    IN  IF t = "" THEN <<>>
        ELSE <<Slice(t, 1, e)>> \o words(Slice(t, e + 1, Len(t)))

DigitOf(c) == CHOOSE d \in 0..9 : Char(DigitChars, d + 1) = c

\* the number a string of digits writes
RECURSIVE DigitsValue(_)
DigitsValue(s) ==
    IF s = "" THEN 0
    ELSE 10 * DigitsValue(Slice(s, 1, Len(s) - 1)) + DigitOf(Char(s, Len(s)))

\* int(s) for s made of digits: ValueError on the empty string
int(s) == IF s = "" THEN Raised ELSE Ok(DigitsValue(s))

\* the decimal m / 10^e without trailing zeros in its fraction
RECURSIVE Decimal(_, _)
Decimal(m, e) ==
    IF e > 0 /\ m % 10 = 0 THEN Decimal(m \div 10, e - 1) ELSE [m |-> m, e |-> e]

\* float(s) for s made of digits and dots: ValueError unless s has a digit
\* and at most one dot
float(s) ==
    LET digits == Keep(s, Digit)
        dot == IndexOf(s, ".", 1)
    IN  IF digits = "" \/ Len(s) - Len(digits) > 1 THEN Raised
        ELSE Ok(Decimal(DigitsValue(digits), IF dot = 0 THEN 0 ELSE Len(s) - dot))

----------------------------------------------------------------------------
(* trading/signal.py *)

\* s.replace(c, ''), c one character
RemoveChar(s, c) == Keep(s, {Char(s, i) : i \in 1..Len(s)} \ {c})

\* re.sub(r'\*+', '', text)
RemoveStars(text) == RemoveChar(text, "*")

\* the character at i is part of a match of r'__|\||\~\~': a "|", or a "_" or
\* "~" paired off from the left of its run (the last of an odd run is not)
FormattingAt(text, i) ==
    LET c == Char(text, i)
        first == SpanStart(text, i, {c})
        last == SpanEnd(text, i, {c})
    IN  \/ c = "|"
        \/ c \in {"_", "~"} /\ ~((i - first) % 2 = 0 /\ i = last)

\* text[lo - 1 : hi] without its formatting characters
RECURSIVE RemoveFormattingIn(_, _, _)
RemoveFormattingIn(text, lo, hi) ==
    IF lo > hi THEN ""
    ELSE IF lo = hi THEN (IF FormattingAt(text, lo) THEN "" ELSE Char(text, lo))
    ELSE LET mid == (lo + hi) \div 2
         IN  RemoveFormattingIn(text, lo, mid) \o RemoveFormattingIn(text, mid + 1, hi)

\* re.sub(r'__|\||\~\~', '', text): leftmost matches, not overlapping
RemoveFormatting(text) == RemoveFormattingIn(text, 1, Len(text))

clean_text(text) == RemoveFormatting(RemoveStars(text))

\* "".join(re.findall(r"[A-Z0-9]+", s)); re.findall raises TypeError on None
extract_pair(s) == IF s = None THEN Raised ELSE Ok(Keep(s.v, UpperOrDigit))

\* [line.strip() for line in message.split('\n') if line.strip()]
RECURSIVE StrippedNonEmpty(_)
StrippedNonEmpty(raw) ==
    IF raw = <<>> THEN <<>>
    ELSE (IF strip(Head(raw)) # "" THEN <<strip(Head(raw))>> ELSE <<>>)
         \o StrippedNonEmpty(Tail(raw))

Lines(message) == StrippedNonEmpty(split(message, "\n"))

\* re.findall(r'([A-Z0-9]+)/([A-Z0-9]+)', line)[0]: the index of the "/" of
\* the leftmost match at or after k, 0 when nothing matches
RECURSIVE PairSlash(_, _)
PairSlash(line, k) ==
    IF k >= Len(line) THEN 0
    ELSE IF /\ Char(line, k) = "/"
            /\ k > 1 /\ Char(line, k - 1) \in UpperOrDigit
            /\ Char(line, k + 1) \in UpperOrDigit
         THEN k
         ELSE PairSlash(line, k + 1)

\* re.search(r'x\s*(\d+)', line).group(1) from index i on, "" for no match
RECURSIVE DigitsAfterX(_, _)
DigitsAfterX(line, i) ==
    IF i > Len(line) THEN ""
    ELSE IF Char(line, i) = "x"
         THEN LET j == SpanEnd(line, i + 1, Space) + 1
                  e == SpanEnd(line, j, Digit)
              IN  IF e >= j THEN Slice(line, j, e) ELSE DigitsAfterX(line, i + 1)
         ELSE DigitsAfterX(line, i + 1)

\* re.search(r'(\d+)\s*' + c, line).group(1) from index i on, "" for no match
RECURSIVE DigitsBefore(_, _, _)
DigitsBefore(line, i, c) ==
    IF i > Len(line) THEN ""
    ELSE IF Char(line, i) \in Digit
         THEN LET e == SpanEnd(line, i, Digit)
                  j == SpanEnd(line, e + 1, Space) + 1
              IN  IF j <= Len(line) /\ Char(line, j) = c THEN Slice(line, i, e)
                  ELSE DigitsBefore(line, e + 1, c)
         ELSE DigitsBefore(line, i + 1, c)

\* re.search(label + r'\s*[-:]\s*(\d+\.?\d*)', line).group(1) when decimal,
\* re.search(label + r'\s*[-:]\s*(\d+)[%]?', line).group(1) otherwise; from
\* index i on, "" for no match
RECURSIVE NumberAfterLabel(_, _, _, _)
NumberAfterLabel(line, label, i, decimal) ==
    LET p == IndexOf(line, label, i)
        a == SpanEnd(line, p + Len(label), Space) + 1
        b == SpanEnd(line, a + 1, Space) + 1
        e == SpanEnd(line, b, Digit)
        f == IF decimal /\ e + 1 <= Len(line) /\ Char(line, e + 1) = "."
             THEN SpanEnd(line, e + 2, Digit) ELSE e
    IN  IF p = 0 THEN ""
        ELSE IF a <= Len(line) /\ Char(line, a) \in {"-", ":"} /\ e >= b
             THEN Slice(line, b, f)
             ELSE NumberAfterLabel(line, label, p + 1, decimal)

\* re.search(r'(\d+\.\d+)', line).group(1) from index i on, "" for no match
RECURSIVE FirstDecimal(_, _)
FirstDecimal(line, i) ==
    IF i > Len(line) THEN ""
    ELSE IF Char(line, i) \in Digit
         THEN LET e == SpanEnd(line, i, Digit)
                  f == SpanEnd(line, e + 2, Digit)
              IN  IF e + 1 <= Len(line) /\ Char(line, e + 1) = "." /\ f >= e + 2
                  THEN Slice(line, i, f)
                  ELSE FirstDecimal(line, e + 1)
         ELSE FirstDecimal(line, i + 1)

\* Lines 196-210: the price of the first line that has one, None otherwise
RECURSIVE FindPrice(_, _)
FindPrice(lines, k) ==
    IF k > Len(lines) THEN None
    ELSE LET low == lower(lines[k])
             price_match == NumberAfterLabel(low, "price", 1, TRUE)
             number_match == IF Contains(low, "price") THEN FirstDecimal(lines[k], 1) ELSE ""
         IN  IF price_match # "" THEN Num(float(price_match).v)
             ELSE IF number_match # "" THEN Num(float(number_match).v)
             ELSE FindPrice(lines, k + 1)

\* Lines 217-231: the profit target of the first line that has one
RECURSIVE FindProfitTarget(_, _)
FindProfitTarget(lines, k) ==
    IF k > Len(lines) THEN None
    ELSE LET low == lower(lines[k])
             profit_match == NumberAfterLabel(low, "profit", 1, FALSE)
             percent_match == IF Contains(low, "profit") THEN DigitsBefore(lines[k], 1, "%") ELSE ""
         IN  IF profit_match # "" THEN Num(int(profit_match).v)
             ELSE IF percent_match # "" THEN Num(int(percent_match).v)
             ELSE FindProfitTarget(lines, k + 1)

\* Lines 172-177: SHORT is tested first
ProfitPositionType(first_line) ==
    LET low == lower(first_line)
    IN  IF Contains(low, "short") \/ Contains(low, "}") THEN Num("SHORT")
        ELSE IF Contains(low, "long") \/ Contains(low, "{") THEN Num("LONG")
        ELSE None

\* Lines 184-193: x<digits>, else <digits>x; the x is lower case
ProfitLeverage(first_line) ==
    LET after == DigitsAfterX(first_line, 1)
        before == DigitsBefore(first_line, 1, "x")
    IN  IF after # "" THEN Num(int(after).v)
        ELSE IF before # "" THEN Num(int(before).v)
        ELSE None

MIN_PROFIT_LINES == 3

\* a test for None alone, where the code tests the truth value
IsMissing(x, zero) == x = None

\* Lines 212 and 233: not x, for x None or a number (zero is the number's 0)
Falsy(x, zero) == x = None \/ x.v = zero

\* _try_parse_profit_message(message): the dict, or None
try_parse_profit_message(message) ==
    LET lines == Lines(message)
    IN  IF Len(lines) < MIN_PROFIT_LINES THEN None
        ELSE
        LET first_line == lines[1]
            k == PairSlash(first_line, 1)
            symbol == Slice(first_line, SpanStart(first_line, k - 1, UpperOrDigit), k)
                      \o Slice(first_line, k + 1, SpanEnd(first_line, k + 1, UpperOrDigit))
            position_type == ProfitPositionType(first_line)
            leverage == ProfitLeverage(first_line)
            price == FindPrice(lines, 1)
            profit_target == FindProfitTarget(lines, 1)
        IN  IF k = 0 THEN None
            ELSE IF position_type = None THEN None
            ELSE IF leverage = None THEN None
            ELSE IF Falsy(price, Decimal(0, 0)) THEN None
            ELSE IF Falsy(profit_target, 0) THEN None
            ELSE [symbol |-> symbol,
                  binance_symbol |-> RemoveChar(symbol, "/"),
                  position_type |-> position_type.v,
                  leverage |-> leverage.v,
                  entry_price |-> price.v,
                  profit_target |-> profit_target.v,
                  original_message |-> message,
                  is_profit_message |-> TRUE]

\* Line 55: next((word for word in first_line.split() if '/' in word), None)
RECURSIVE FirstSlashWord(_)
FirstSlashWord(ws) ==
    IF ws = <<>> THEN None
    ELSE IF Contains(Head(ws), "/") THEN Num(Head(ws))
    ELSE FirstSlashWord(Tail(ws))

\* Line 61: the literal substrings, LONG tested first
StandardPositionType(first_line) ==
    IF Contains(first_line, "Long") THEN Num("LONG")
    ELSE IF Contains(first_line, "Short") THEN Num("SHORT")
    ELSE None

\* Lines 66-73: the digits of the first word with an x (either case) that
\* has digits; int('') raises ValueError and the loop goes on
RECURSIVE StandardLeverage(_)
StandardLeverage(ws) ==
    IF ws = <<>> THEN None
    ELSE LET r == int(Keep(Head(ws), Digit))
         IN  IF Contains(lower(Head(ws)), "x") /\ ~r.raised THEN Num(r.v)
             ELSE StandardLeverage(Tail(ws))

\* float(''.join(c for c in line.split('-')[1] if c.isdigit() or c == '.')):
\* IndexError without a '-', ValueError without a number
NumberAfterDash(line) ==
    LET parts == split(line, "-")
    IN  IF Len(parts) < 2 THEN Raised ELSE float(Keep(parts[2], DigitOrDot))

\* Lines 84-92: the first line naming a stop-loss whose number parses
RECURSIVE FindStopLoss(_, _)
FindStopLoss(lines, k) ==
    IF k > Len(lines) THEN None
    ELSE LET line == lines[k]
             r == NumberAfterDash(line)
         IN  IF (Contains(line, "SL") \/ Contains(line, "Stop Loss") \/ Contains(line, "Stop-Loss"))
                /\ ~r.raised
             THEN Num(r.v)
             ELSE FindStopLoss(lines, k + 1)

\* Lines 97-108: price from every digit and dot of the line, percentage from
\* the digits between the first '(' and the next '%'
TakeProfitLevel(line) ==
    LET price == float(Keep(line, DigitOrDot))
        parts == split(line, "(")
        percentage == int(Keep(split(parts[2], "%")[1], Digit))
    IN  IF price.raised THEN Raised
        ELSE IF Len(parts) < 2 THEN Raised
        ELSE IF percentage.raised THEN Raised
        ELSE Ok([price |-> price.v, percentage |-> percentage.v])

\* the levels of lines[from - 1 : to] (0-based slice), lines that raise skipped
RECURSIVE TakeProfitLevels(_, _, _)
TakeProfitLevels(lines, from, to) ==
    IF from > to \/ from > Len(lines) THEN <<>>
    ELSE LET r == TakeProfitLevel(lines[from])
         IN  (IF r.raised THEN <<>> ELSE <<r.v>>) \o TakeProfitLevels(lines, from + 1, to)

TP_SLICE_START == 3
TP_SLICE_STOP == 7

\* for line in lines[2:7], a slice that starts one line early
TakeProfitScanEarly(lines) == TakeProfitLevels(lines, TP_SLICE_START, TP_SLICE_STOP)

\* Line 96: for line in lines[3:7]
TakeProfitScan(lines) == TakeProfitLevels(lines, TP_SLICE_START + 1, TP_SLICE_STOP)

\* Lines 47-128, the body of the second try block: the dict, None, or the
\* exception that leaves the block
StandardBody(message, clean_message) ==
    LET lines == Lines(clean_message)
    IN  IF lines = <<>> THEN Raised
        ELSE
        LET first_line == lines[1]
            symbol == extract_pair(FirstSlashWord(words(first_line)))
            position_type == StandardPositionType(first_line)
            leverage == StandardLeverage(words(first_line))
            entry_price == IF Len(lines) < 2 THEN Raised ELSE NumberAfterDash(lines[2])
            stop_loss == FindStopLoss(lines, 1)
            tp_levels == TakeProfitScan(lines)
        IN  IF symbol.raised THEN Raised
            ELSE IF symbol.v = "" THEN Ok(None)
            ELSE IF position_type = None THEN Ok(None)
            ELSE IF leverage = None \/ leverage.v = 0 THEN Ok(None)
            ELSE IF entry_price.raised THEN Ok(None)
            ELSE IF Len(tp_levels) < 1 THEN Ok(None)
            ELSE Ok([symbol |-> symbol.v,
                     binance_symbol |-> RemoveChar(symbol.v, "/"),
                     position_type |-> position_type.v,
                     leverage |-> leverage.v,
                     entry_price |-> entry_price.v,
                     stop_loss |-> stop_loss,
                     take_profit_levels |-> tp_levels,
                     original_message |-> message,
                     is_profit_message |-> FALSE])

\* an exception of the second try block left to propagate
StandardUncaught(r) == IF r.raised THEN [tag |-> "raised"] ELSE r.v

\* Lines 130-132: except Exception: return None
StandardCaught(r) == IF r.raised THEN None ELSE r.v

\* a parse that tries the entry grammar first and the profit grammar after it
parse_entry_first(message) ==
    LET clean_message == clean_text(message)
        profit_message == try_parse_profit_message(clean_message)
        standard == StandardBody(message, clean_message)
    IN  IF ~standard.raised /\ standard.v # None
        THEN [ret |-> standard.v,
              frame |-> [lines |-> Lines(clean_message), profit_message |-> profit_message,
                         standard_tried |-> TRUE, standard_raised |-> FALSE]]
        ELSE [ret |-> profit_message,
              frame |-> [lines |-> Lines(clean_message), profit_message |-> profit_message,
                         standard_tried |-> TRUE, standard_raised |-> standard.raised]]

\* SignalParser.parse(message): what it returns, with the outcome of each
\* grammar
parse(message) ==
    LET clean_message == clean_text(message)
        profit_message == try_parse_profit_message(clean_message)
        standard == StandardBody(message, clean_message)
    IN  IF profit_message # None
        THEN [ret |-> profit_message,
              frame |-> [lines |-> Lines(clean_message), profit_message |-> profit_message,
                         standard_tried |-> FALSE, standard_raised |-> FALSE]]
        ELSE [ret |-> StandardCaught(standard),
              frame |-> [lines |-> Lines(clean_message), profit_message |-> profit_message,
                         standard_tried |-> TRUE, standard_raised |-> standard.raised]]

----------------------------------------------------------------------------
(* trading/bot.py: TradingBot, one run of handle_new_message per message.  *)
(* A run executes up to its next await in one step; the awaited engine or  *)
(* send call completes in a later step, and other runs may execute in      *)
(* between.                                                                *)

\* '\n'.join(ls)
RECURSIVE Join(_)
Join(ls) ==
    IF ls = <<>> THEN ""
    ELSE IF Len(ls) = 1 THEN ls[1]
    ELSE ls[1] \o "\n" \o Join(Tail(ls))

\* old.replace in one line, old not empty
RECURSIVE ReplaceInLine(_, _, _)
ReplaceInLine(s, old, new) ==
    LET i == IndexOf(s, old, 1)
    IN  IF i = 0 THEN s
        ELSE Slice(s, 1, i - 1) \o new
                 \o ReplaceInLine(Slice(s, i + Len(old), Len(s)), old, new)

\* s.replace(old, new), for old without a line break: line by line
replace(s, old, new) ==
    LET ls == split(s, "\n")
    IN  Join([k \in DOMAIN ls |-> ReplaceInLine(ls[k], old, new)])

\* '0' * n
RECURSIVE Zeros(_)
Zeros(n) == IF n <= 0 THEN "" ELSE "0" \o Zeros(n - 1)

\* str(x) of a float, as an f-string writes it: the shortest digits, with
\* ".0" for a whole number and an exponent below 0.0001
str_float(x) ==
    IF x.e = 0 THEN ToString(x.m) \o ".0"
    ELSE IF x.m * 10000 >= Pow10(x.e)
    THEN LET fraction == ToString(x.m % Pow10(x.e))
         IN  ToString(x.m \div Pow10(x.e)) \o "."
                 \o Zeros(x.e - Len(fraction)) \o fraction
    ELSE LET digits == ToString(x.m)
             exponent == x.e - (Len(digits) - 1)
         IN  Slice(digits, 1, 1)
                 \o (IF Len(digits) > 1 THEN "." \o Slice(digits, 2, Len(digits)) ELSE "")
                 \o "e-" \o (IF exponent < 10 THEN "0" ELSE "") \o ToString(exponent)

\* Lines 279 and 318: the emoji of the side ("^" for the green circle, "&"
\* for the red one)
PositionEmoji(signal) == IF signal.position_type = "LONG" THEN "^" ELSE "&"

\* a profit text whose first line carries the pair, the side and the leverage
format_profit_message_pair_first(signal) ==
    signal.symbol \o " " \o PositionEmoji(signal) \o " " \o signal.position_type
        \o " " \o ToString(signal.leverage) \o "x\n"
        \o "Entry Price: " \o str_float(signal.entry_price) \o "\n"
        \o "Target Profit: " \o ToString(signal.profit_target) \o "%\n\n"
        \o "#Bybit #" \o signal.binance_symbol

\* SignalFormatter.format_profit_message ("@" for the chart emoji)
format_profit_message(signal) ==
    "@ PROFIT TARGET\n\n"
        \o "Pair: " \o signal.symbol \o "\n"
        \o "Position: " \o PositionEmoji(signal) \o " " \o signal.position_type \o "\n"
        \o "Leverage: " \o ToString(signal.leverage) \o "x\n"
        \o "Entry Price: " \o str_float(signal.entry_price) \o "\n"
        \o "Target Profit: " \o ToString(signal.profit_target) \o "%\n\n"
        \o "#Bybit #" \o signal.binance_symbol

\* Line 283: sum(tp['percentage'] for tp in signal['take_profit_levels'])
RECURSIVE TotalPercentage(_)
TotalPercentage(levels) ==
    IF levels = <<>> THEN 0 ELSE levels[1].percentage + TotalPercentage(Tail(levels))

\* Lines 299-300: the lines TP<i>: <price> (<percentage>%), from level i on
RECURSIVE TakeProfitText(_, _)
TakeProfitText(levels, i) ==
    IF i > Len(levels) THEN ""
    ELSE "TP" \o ToString(i) \o ": " \o str_float(levels[i].price)
             \o " (" \o ToString(levels[i].percentage) \o "%)\n"
             \o TakeProfitText(levels, i + 1)

\* SignalFormatter.format: "" for an entry signal when entry notifications
\* are enabled
format(signal, cfg) ==
    IF signal.is_profit_message THEN format_profit_message(signal)
    ELSE IF cfg.ENABLE_ENTRY_NOTIFICATIONS THEN ""
    ELSE "@ BYBIT SIGNAL\n\n"
             \o "Pair: " \o signal.symbol \o "\n"
             \o "Position: " \o PositionEmoji(signal) \o " " \o signal.position_type \o "\n"
             \o "Leverage: " \o ToString(signal.leverage) \o "x\n"
             \o "Entry: " \o str_float(signal.entry_price) \o "\n"
             \o (IF Falsy(signal.stop_loss, Decimal(0, 0)) THEN ""
                 ELSE "Stop Loss: " \o str_float(signal.stop_loss.v) \o "\n")
             \o "\nTake Profit Targets:\n"
             \o TakeProfitText(signal.take_profit_levels, 1)
             \o "\nTotal Profit: " \o ToString(TotalPercentage(signal.take_profit_levels)) \o "%\n"
             \o "\n#Bybit #" \o signal.binance_symbol

\* float * float, on decimals
DecimalMul(x, y) == Decimal(x.m * y.m, x.e + y.e)

\* What symbol_mapper.get_mapped_symbol(symbol) can give: it raises, it
\* returns (None, 1.0) for a symbol without mapping, or it returns the
\* (target symbol, price ratio) of a mapping, the ratio greater than 0.
MapperResults(symbol) ==
    {Raised,
     Ok([mapped_symbol |-> None, rate |-> Decimal(1, 0)]),
     Ok([mapped_symbol |-> Num("1000" \o symbol), rate |-> Decimal(1, 3)])}

\* What an awaited call of the trader can give: it raises, or it returns a
\* result dict; adjust_stop_loss_for_profit_target may tell the stop-loss
\* percentages before and after (here 2.0 and 1.0)
EngineResults(operation) ==
    {Raised, Ok([success |-> FALSE]), Ok([success |-> TRUE])}
        \cup (IF operation = "adjust_stop_loss_for_profit_target"
              THEN {Ok([success |-> TRUE, original_sl_percent |-> 2, new_sl_percent |-> 1])}
              ELSE {})

\* symbol without the mapper's answer applied, whatever the answer
MappedSymbolIgnored(symbol, lookup) == symbol

\* Lines 156-170: the symbol the engine is called with
MappedSymbol(symbol, lookup) ==
    IF ~lookup.raised /\ lookup.v.mapped_symbol # None
    THEN lookup.v.mapped_symbol.v
    ELSE symbol

\* Lines 173-176: the signal after the lookup
MappedSignal(signal, lookup) ==
    IF ~lookup.raised /\ lookup.v.mapped_symbol # None
    THEN [signal EXCEPT !.entry_price = DecimalMul(signal.entry_price, lookup.v.rate)]
    ELSE signal

\* Line 179: the text after the lookup
MappedText(signal, formatted_message, lookup) ==
    IF ~lookup.raised /\ lookup.v.mapped_symbol # None
    THEN replace(formatted_message, "#" \o signal.binance_symbol,
                 "#" \o lookup.v.mapped_symbol.v)
    ELSE formatted_message

\* an operation choice that adjusts the stop-loss only below 100
ProfitOperationBelow100(profit_target) ==
    IF profit_target = 100 THEN "close_position"
    ELSE IF profit_target > 0 /\ profit_target < 100 THEN "adjust_stop_loss_for_profit_target"
    ELSE "none"

\* Lines 187 and 202: the trader operation for a profit target
ProfitOperation(profit_target) ==
    IF profit_target = 100 THEN "close_position"
    ELSE IF profit_target > 0 THEN "adjust_stop_loss_for_profit_target"
    ELSE "none"

Done == [pc |-> "done"]

\* Config.ENABLE_ENTRY_NOTIFICATIONS as utils/config.py defaults it
DefaultConfig == [ENABLE_ENTRY_NOTIFICATIONS |-> TRUE]

\* Lines 147-205: _handle_profit_message up to its first await
handle_profit_message(message, signal, formatted_message, lookup) ==
    LET symbol == MappedSymbol(signal.binance_symbol, lookup)
        mapped == MappedSignal(signal, lookup)
        text == MappedText(signal, formatted_message, lookup)
        operation == ProfitOperation(signal.profit_target)
    IN  [pc |-> IF operation = "none" THEN "await_send" ELSE "await_engine",
         message |-> message,
         parsed |-> signal,
         signal |-> mapped,
         formatted_message |-> text,
         lookup |-> lookup,
         calls |-> IF operation = "none" THEN <<>>
                   ELSE IF operation = "close_position"
                   THEN <<[op |-> operation, symbol |-> symbol]>>
                   ELSE <<[op |-> operation, symbol |-> symbol,
                           profit_target |-> signal.profit_target]>>,
         result |-> None]

\* Line 143: the run of an entry signal that came as a reply: it ended
\* without a call
SkippedReply(message, signal) ==
    [pc |-> "done", message |-> message, parsed |-> signal, calls |-> <<>>]

\* Lines 132-138 begun for an entry signal
ExecuteTrades(message, signal, cfg) ==
    [pc |-> "await_engine",
     message |-> message,
     parsed |-> signal,
     signal |-> signal,
     formatted_message |-> format(signal, cfg),
     lookup |-> None,
     calls |-> <<[op |-> "execute_signal", symbol |-> signal.binance_symbol]>>,
     result |-> None]

\* a handler that executes the entry signals of replies as well
handle_new_message_replies_too(message, signal, cfg, lookup) ==
    IF signal = None THEN Done
    ELSE IF signal.is_profit_message
    THEN handle_profit_message(message, signal, format(signal, cfg), lookup)
    ELSE ExecuteTrades(message, signal, cfg)

\* Lines 118-145: handle_new_message from the parser's answer up to its
\* first await
handle_new_message(message, signal, cfg, lookup) ==
    IF signal = None THEN Done
    ELSE IF signal.is_profit_message
    THEN handle_profit_message(message, signal, format(signal, cfg), lookup)
    ELSE IF ~message.is_reply
    THEN ExecuteTrades(message, signal, cfg)
    ELSE SkippedReply(message, signal)

\* Lines 195 and 216: the texts appended (the percentages with two decimals)
CLOSED_TEXT == "\n\n! Position closed at 100% profit target"
ADJUSTED_TEXT == "\n\n! Stop Loss adjusted from 2.00% to 1.00% to lock in profits"

\* result.get('original_sl_percent') and result.get('new_sl_percent') are
\* both there and not zero
HasPercents(result) ==
    /\ "original_sl_percent" \in DOMAIN result /\ result.original_sl_percent # 0
    /\ "new_sl_percent" \in DOMAIN result /\ result.new_sl_percent # 0

\* a text that reports the outcome whatever the trader answered
TextAfterEngineAlways(run, result) ==
    IF run.calls[1].op = "close_position"
    THEN run.formatted_message \o CLOSED_TEXT
    ELSE run.formatted_message \o ADJUSTED_TEXT

\* Lines 192-195 and 207-216: the text after the trader returned
TextAfterEngine(run, result) ==
    IF result.raised THEN run.formatted_message
    ELSE IF ~result.v.success THEN run.formatted_message
    ELSE IF run.calls[1].op = "close_position"
    THEN run.formatted_message \o CLOSED_TEXT
    ELSE IF HasPercents(result.v) THEN run.formatted_message \o ADJUSTED_TEXT
    ELSE run.formatted_message

\* Line 136: if formatted_message and not Config.ENABLE_ENTRY_NOTIFICATIONS
SendsAfterExecution(formatted_message, cfg, result) ==
    formatted_message # "" /\ ~cfg.ENABLE_ENTRY_NOTIFICATIONS

\* The run resumed with the result of its engine call, up to its next await:
\* client.send_message (lines 138 and 224), or the end of the handler
after_engine(run, result, cfg) ==
    IF run.signal.is_profit_message
    THEN [run EXCEPT !.pc = "await_send",
                     !.formatted_message = TextAfterEngine(run, result),
                     !.result = result]
    ELSE IF SendsAfterExecution(run.formatted_message, cfg, result)
    THEN [run EXCEPT !.pc = "await_send", !.result = result]
    ELSE Done

----------------------------------------------------------------------------
(* The calls: the arguments are drawn at the start, the call returns once *)

MaxLeverageArg == 22
MaxStopDistance == 10

BalanceArgs == {Num(0), Num(1), Num(1000), None}
EntryPriceArgs == {0, 100, 50000}
LeverageArgs == {Num(l) : l \in 0..MaxLeverageArg} \cup {None}
SizeStopLossArgs == {None, Num(0), Num(90), Num(100), Num(49000)}
SymbolInfoArgs ==
    {None,
     [tag |-> "dict", lotSizeFilter |-> None, minOrderQty |-> None],
     [tag |-> "dict", lotSizeFilter |-> Num(2), minOrderQty |-> Num(Q(1, 1000))],
     [tag |-> "dict", lotSizeFilter |-> None, minOrderQty |-> Num(Q(1, 10))],
     [tag |-> "dict", lotSizeFilter |-> None, minOrderQty |-> Num(Q(0, 1))],
     [tag |-> "dict", lotSizeFilter |-> None, minOrderQty |-> Str]}

MaxTail == 5

\* The messages drawn: a first line, then a second, then a third and up to
\* MaxTail further lines, each taken from the lines below.
FirstLines ==
    {"BTC/USDT Long x10", "#PLUME/USDT (Short}, x20)", "BTC/ Long x10", "Long x10",
     "**ETH/USDT** SHORT 20X", "btc/usdt Long x5", "BTC/USDT long 5x", "XRP/USDT Short x", ""}
SecondLines == {"Entry - 50000", "! Price - 0.1724", "Entry 50000", "Price - 0", "  "}
ThirdLines ==
    {"SL - 49000", "! Profit - 60%", "Profit: 100", "Profit - 160%", "Profit - 0%",
     "Stop-Loss - 48000", "TP0 - 50500 (10%)"}

TailPercents == <<"50", "50", "150", "0">>

\* the k-th further line when it is a take-profit line: TP<k> - 5<k>000 (<p>%)
TakeProfitLine(k) ==
    "TP" \o Char(DigitChars, k + 1) \o " - 5" \o Char(DigitChars, k + 1) \o "000 ("
        \o (IF k <= Len(TailPercents) THEN TailPercents[k] ELSE "25") \o "%)"

\* n further lines, take-profit lines but for at most one (the j-th) that
\* carries no number
Tails ==
    {[k \in 1..n |-> IF k = j THEN "note" ELSE TakeProfitLine(k)] :
        n \in 0..MaxTail, j \in 0..MaxTail}

Messages ==
    FirstLines
    \cup {Join(<<f, s>>) : f \in FirstLines, s \in SecondLines}
    \cup {Join(<<f, s, t>> \o tail) :
            f \in FirstLines, s \in SecondLines, t \in ThirdLines, tail \in Tails}

ParseArgs == [message : Messages]

SizeArgs ==
    [account_balance : BalanceArgs, entry_price : EntryPriceArgs, stop_loss : SizeStopLossArgs,
     leverage : LeverageArgs, symbol_info : SymbolInfoArgs]

ValidateEntryArgs == {0, 100, 200}
ValidateStopLossArgs ==
    {None, Num(0)} \cup {Num(s) : s \in (100 - MaxStopDistance)..(100 + MaxStopDistance)}
ValidateArgs ==
    [signal : [entry_price : ValidateEntryArgs, stop_loss : ValidateStopLossArgs,
               leverage : LeverageArgs],
     account_balance : {Num(0), Num(1000)}]

Init ==
    /\ op \in {"size", "validate", "parse"}
    /\ args \in (IF op = "size" THEN SizeArgs ELSE IF op = "validate" THEN ValidateArgs ELSE ParseArgs)
    /\ ret = Pending
    /\ frame = NoFrame
    /\ config = DefaultConfig
    /\ runs = <<>>

CalculatePositionSize ==
    /\ op = "size" /\ ret = Pending
    /\ \E r \in calculate_position_size(args.account_balance, args.entry_price, args.stop_loss,
                                         args.leverage, args.symbol_info) :
           ret' = r.ret /\ frame' = r.frame
    /\ UNCHANGED <<op, args, config, runs>>

ValidateRiskParameters ==
    /\ op = "validate" /\ ret = Pending
    /\ ret' = validate_risk_parameters(args.signal, args.account_balance)
    /\ UNCHANGED <<op, args, frame, config, runs>>

Parse ==
    /\ op = "parse" /\ ret = Pending
    /\ LET r == parse(args.message)
       IN  ret' = r.ret /\ frame' = r.frame
    /\ UNCHANGED <<op, args, config, runs>>

Next == CalculatePositionSize \/ ValidateRiskParameters \/ Parse

Spec == Init /\ [][Next]_vars

----------------------------------------------------------------------------
(* The bot: messages of the source channel arrive, each starts a run of    *)
(* handle_new_message; the client is built without sequential_updates, so  *)
(* each run is a task of its own and the runs take turns at their awaits.  *)

MaxMessages == 2

\* Texts of the source channel: profit updates (targets 100, 160 and 0), an
\* entry signal and a text that is no signal; the entry signal and the first
\* profit update also as replies
BotMessages ==
    {[text |-> "BTC/USDT Long x10\n! Price - 0.1724\nProfit: 100", is_reply |-> FALSE],
     [text |-> "BTC/USDT Long x10\n! Price - 0.1724\nProfit: 100", is_reply |-> TRUE],
     [text |-> "#PLUME/USDT (Short}, x20)\n! Price - 0.1724\nProfit - 160%", is_reply |-> FALSE],
     [text |-> "#PLUME/USDT (Short}, x20)\n! Price - 0.1724\nProfit - 0%", is_reply |-> FALSE],
     [text |-> "BTC/USDT Long x10\nEntry - 50000\nSL - 49000\nTP1 - 51000 (50%)", is_reply |-> FALSE],
     [text |-> "BTC/USDT Long x10\nEntry - 50000\nSL - 49000\nTP1 - 51000 (50%)", is_reply |-> TRUE],
     [text |-> "Long x10", is_reply |-> FALSE]}

BotInit ==
    /\ op = "bot"
    /\ args = None
    /\ ret = Pending
    /\ frame = NoFrame
    /\ config \in [ENABLE_ENTRY_NOTIFICATIONS : BOOLEAN]
    /\ runs = <<>>

\* A message arrives: its handler runs up to its first await (or to its end)
HandleNewMessage ==
    /\ op = "bot" /\ Len(runs) < MaxMessages
    /\ \E message \in BotMessages : \E signal \in {parse(message.text).ret} :
           \E lookup \in (IF signal # None /\ signal.is_profit_message
                           THEN MapperResults(signal.binance_symbol) ELSE {None}) :
               runs' = Append(runs, handle_new_message(message, signal, config, lookup))
    /\ UNCHANGED <<op, args, ret, frame, config>>

\* The awaited call of the trader completes and the run continues to its
\* next await, or to its end
EngineReturns ==
    /\ op = "bot"
    /\ \E k \in DOMAIN runs :
           /\ runs[k].pc = "await_engine"
           /\ \E result \in EngineResults(runs[k].calls[1].op) :
                  runs' = [runs EXCEPT ![k] = after_engine(runs[k], result, config)]
    /\ UNCHANGED <<op, args, ret, frame, config>>

\* The awaited client.send_message completes (or raises, which is logged):
\* the run ends
SendReturns ==
    /\ op = "bot"
    /\ \E k \in DOMAIN runs :
           /\ runs[k].pc = "await_send"
           /\ runs' = [runs EXCEPT ![k] = Done]
    /\ UNCHANGED <<op, args, ret, frame, config>>

BotNext == HandleNewMessage \/ EngineReturns \/ SendReturns

BotSpec == BotInit /\ [][BotNext]_vars

----------------------------------------------------------------------------
(* The relay fed back: one message goes through its handler, and the text  *)
(* formatted for it, or the text sent to the target channel, is given to   *)
(* the parser as a message.                                                *)

\* Texts of three lines, and of four with a take-profit line
RelayMessages ==
    {Join(<<f, s, t>> \o tail) :
        f \in FirstLines, s \in SecondLines, t \in ThirdLines,
        tail \in {<<>>, <<TakeProfitLine(1)>>}}

RelayInit ==
    /\ op = "relay"
    /\ args \in [message : [text : RelayMessages, is_reply : {FALSE}]]
    /\ ret = Pending
    /\ frame = NoFrame
    /\ config \in [ENABLE_ENTRY_NOTIFICATIONS : BOOLEAN]
    /\ runs = <<>>

\* The handler from the message to its end: what the formatter returned for
\* the signal, and the text given to client.send_message, if any
Relay ==
    /\ op = "relay" /\ ret = Pending
    /\ \E signal \in {parse(args.message.text).ret} :
           IF signal = None THEN ret' = None
           ELSE \E lookup \in (IF signal.is_profit_message
                                THEN MapperResults(signal.binance_symbol) ELSE {None}) :
                    \E run \in {handle_new_message(args.message, signal, config, lookup)} :
                        \E result \in EngineResults(run.calls[1].op) :
                            \E after \in {after_engine(run, result, config)} :
                                ret' = [signal |-> signal,
                                        formatted |-> format(signal, config),
                                        relayed |-> IF after.pc = "await_send"
                                                    THEN Num(after.formatted_message)
                                                    ELSE None]
    /\ UNCHANGED <<op, args, frame, config, runs>>

\* One of the two texts comes to the parser
FeedBack ==
    /\ op = "relay" /\ ret # Pending /\ ret # None /\ frame = NoFrame
    /\ \E text \in {ret.formatted}
                     \cup (IF ret.relayed = None THEN {} ELSE {ret.relayed.v}) :
           frame' = [text |-> text, signal |-> parse(text).ret]
    /\ UNCHANGED <<op, args, ret, config, runs>>

RelayNext == Relay \/ FeedBack

RelaySpec == RelayInit /\ [][RelayNext]_vars

----------------------------------------------------------------------------
(* Properties of the risk manager *)

SizeReturned == op = "size" /\ ret # Pending
ValidateReturned == op = "validate" /\ ret # Pending

\* C1: calculate_position_size never returns a size <= 0 (and never raises),
\* for every balance, entry price, stop-loss, leverage and symbol_info.
C1_SizeAlwaysPositive ==
    SizeReturned => QLt(QInt(0), ret.size)

\* potential_loss_pct = |entry - stop| / entry * 100 * leverage compared with
\* a threshold, for entry > 0, without the division.
LossPctAbove(signal, threshold) ==
    Abs(signal.entry_price - signal.stop_loss.v) * 100 * signal.leverage.v
        > threshold * signal.entry_price

DecidedByLossPct(signal, r) ==
    /\ LossPctAbove(signal, 80) => ~r.ok
    /\ (LossPctAbove(signal, 50) /\ ~LossPctAbove(signal, 80)) =>
            (r.ok /\ r.message = "Warning: High risk trade")
    /\ ~LossPctAbove(signal, 50) => (r.ok /\ r.message = "Risk parameters acceptable")

LeverageWithinMax(signal) == IsNum(signal.leverage) /\ signal.leverage.v <= MAX_LEVERAGE

\* C2 as stated: for every signal with leverage <= max and a stop-loss present
\* (entry price positive, so that the percentage is defined), the verdict is
\* decided by potential_loss_pct: reject above 80, warn in (50, 80], accept
\* silently up to 50.
C2_AnyStopDecidedByLossPct ==
    (ValidateReturned /\ LeverageWithinMax(args.signal)
        /\ args.signal.stop_loss # None /\ args.signal.entry_price > 0)
    => DecidedByLossPct(args.signal, ret)

\* C2 amended: for every signal with leverage <= max, a non-zero stop-loss and
\* a positive entry price the verdict is decided by potential_loss_pct (reject
\* above 80, warn in (50, 80], accept silently up to 50); a stop-loss of 0
\* counts as no stop-loss (accepted with the no-stop-loss warning), and an
\* entry price of 0 with a non-zero stop-loss is rejected.
C2_NonZeroStopDecidedByLossPct ==
    (ValidateReturned /\ LeverageWithinMax(args.signal) /\ args.signal.stop_loss # None)
    => /\ (args.signal.stop_loss.v # 0 /\ args.signal.entry_price > 0)
            => DecidedByLossPct(args.signal, ret)
       /\ args.signal.stop_loss.v = 0
            => (ret.ok /\ ret.message =
                  "Warning: No stop loss provided. Trade executed with default protection.")
       /\ (args.signal.stop_loss.v # 0 /\ args.signal.entry_price = 0) => ~ret.ok

\* A signal at the upper edge of the warning band: 8% away at leverage 10.
C2_Witness ==
    /\ ValidateReturned
    /\ args.signal = [entry_price |-> 100, stop_loss |-> Num(92), leverage |-> Num(10)]
    /\ ret = [ok |-> TRUE, message |-> "Warning: High risk trade"]

\* C3: a leverage above the configured maximum is rejected with or without a
\* stop-loss; with leverage <= max and no stop-loss the signal is accepted
\* with a warning, whatever the entry price and the balance.
C3_LeverageRejectedNoStopAccepted ==
    ValidateReturned =>
        /\ (IsNum(args.signal.leverage) /\ args.signal.leverage.v > MAX_LEVERAGE) => ~ret.ok
        /\ (LeverageWithinMax(args.signal) /\ args.signal.stop_loss = None)
            => (ret.ok /\ ret.message =
                  "Warning: No stop loss provided. Trade executed with default protection.")

\* No stop-loss, entry price 0, balance 0, leverage at the maximum: accepted.
C3_Witness ==
    /\ ValidateReturned
    /\ args.signal = [entry_price |-> 0, stop_loss |-> None, leverage |-> Num(MAX_LEVERAGE)]
    /\ args.account_balance = Num(0)
    /\ ret.ok

NormalPath == SizeReturned /\ frame.path = "normal"

EffectiveLeverage(leverage) == IF leverage <= MAX_LEVERAGE THEN leverage ELSE MAX_LEVERAGE

\* position_size = num / den, with den > 0
SizeIs(position_size, num, den) == position_size.n * den = num * position_size.d

\* C8 as stated: on the normal path the size before the minimum-notional and
\* rounding steps is balance * risk_fraction * min(leverage, max) / |entry - stop|
\* whenever a stop-loss is given and differs from entry.
C8_AnyStopSizedByRisk ==
    (NormalPath /\ args.stop_loss # None /\ args.stop_loss.v # args.entry_price)
    => SizeIs(frame.position_size,
              args.account_balance.v * DEFAULT_RISK_PERCENT * EffectiveLeverage(args.leverage.v),
              100 * Abs(args.entry_price - args.stop_loss.v))

\* C8 amended: on the normal path, before the minimum-notional and rounding
\* steps, with effective_leverage = min(leverage, max): the size is
\* balance * risk_fraction * effective_leverage / |entry - stop| when the
\* stop-loss is positive and differs from entry, 0.10 * balance *
\* effective_leverage / entry when it equals entry, and 0.05 * balance *
\* effective_leverage / entry when no stop-loss is given or the stop-loss is
\* not positive; (1000, 100, 90, 10, None) at 2% risk returns 20.0.
C8_SizeFormulas ==
    NormalPath =>
        LET lev == EffectiveLeverage(args.leverage.v)
            bal == args.account_balance.v
            positive == args.stop_loss # None /\ args.stop_loss.v > 0
        IN  /\ frame.effective_leverage = lev
            /\ (positive /\ args.stop_loss.v # args.entry_price)
                => SizeIs(frame.position_size, bal * DEFAULT_RISK_PERCENT * lev,
                          100 * Abs(args.entry_price - args.stop_loss.v))
            /\ (positive /\ args.stop_loss.v = args.entry_price)
                => SizeIs(frame.position_size, 10 * bal * lev, 100 * args.entry_price)
            /\ ~positive
                => SizeIs(frame.position_size, 5 * bal * lev, 100 * args.entry_price)
            /\ (args = [account_balance |-> Num(1000), entry_price |-> 100,
                        stop_loss |-> Num(90), leverage |-> Num(10), symbol_info |-> None])
                => ret.size = QInt(20)

\* A leverage above the maximum, with a stop-loss: sized as the maximum is.
C8_Witness ==
    /\ NormalPath
    /\ args = [account_balance |-> Num(1000), entry_price |-> 100, stop_loss |-> Num(90),
               leverage |-> Num(MAX_LEVERAGE + 1), symbol_info |-> None]
    /\ frame.position_size = QInt(40)
    /\ ret.size = QInt(40)

\* the text of the message is prefix followed by something
StartsWith(text, prefix) ==
    Len(text) > Len(prefix) /\ SubSeq(text, 1, Len(prefix)) = prefix

\* C14: when a step of calculate_position_size raises (a non-numeric leverage
\* or balance, a division by an entry price of 0), the call returns the size
\* 0.01 exactly with a message describing the error, and nothing propagates.
C14_FailureReturnsFallback ==
    SizeReturned =>
        /\ (\/ ~IsNum(args.leverage)
            \/ ~IsNum(args.account_balance)
            \/ (args.entry_price = 0 /\ args.stop_loss = None)) => frame.path = "except"
        /\ frame.path = "except" =>
              /\ ret.size = Q(1, 100)
              /\ StartsWith(ret.message, "Error in position sizing: ")
        /\ frame.path \in {"except", "normal"}

\* An entry price of 0 without a stop-loss: the division raises, 0.01 comes back.
C14_Witness ==
    /\ SizeReturned
    /\ args.entry_price = 0 /\ args.stop_loss = None
    /\ IsNum(args.leverage) /\ IsNum(args.account_balance)
    /\ ret = [size |-> Q(1, 100), message |-> "Error in position sizing: float division by zero"]

\* C16: whenever calculate_position_size returns through its normal path with
\* entry_price > 0, the returned (rounded) size times entry_price is at least
\* the resolved min_notional.
C16_ReturnedSizeMeetsMinNotional ==
    (NormalPath /\ args.entry_price > 0)
    => ~QLt(QMul(ret.size, QInt(args.entry_price)), frame.min_notional)

\* C17: when symbol_info carries a well-formed lot-size filter and a
\* well-formed min_order_qty, the size is rounded to the decimals that
\* qty_step implies and min_order_qty * entry_price is the minimum notional.
C17_SymbolInfoUsed ==
    (NormalPath /\ args.symbol_info # None
        /\ IsNum(args.symbol_info.lotSizeFilter) /\ IsNum(args.symbol_info.minOrderQty))
    => /\ frame.precision = args.symbol_info.lotSizeFilter.v
       /\ frame.min_notional = QMul(args.symbol_info.minOrderQty.v, QInt(args.entry_price))

\* C18: when no stop-loss is given, the message returned is the conservative
\* sizing message, not the message of a stop-loss-based sizing.
C18_ConservativeMessage ==
    (NormalPath /\ args.stop_loss = None)
    => ret.message = "No stop loss provided; using conservative position sizing"

----------------------------------------------------------------------------
(* Properties of the signal parser *)

ParseReturned == op = "parse" /\ ret # Pending
ProfitUpdateSignal ==
    ParseReturned /\ "is_profit_message" \in DOMAIN ret /\ ret.is_profit_message
EntrySignal ==
    ParseReturned /\ "is_profit_message" \in DOMAIN ret /\ ~ret.is_profit_message

\* the first non-empty line of the raw text has a pair token: a run of
\* uppercase letters or digits on each side of a "/"
FirstLineHasPair(message) ==
    LET lines == Lines(message)
    IN  lines # <<>> /\ PairSlash(lines[1], 1) # 0

\* C4: for every raw text whose first non-empty line has no pair token,
\* parse returns None: neither grammar produces a signal.
C4_NoPairNoSignal ==
    (ParseReturned /\ ~FirstLineHasPair(args.message)) => ret = None

\* C5: parse lets no exception escape, whatever the text: it returns None, a
\* profit-update signal or an entry signal, and when the profit grammar does
\* not match and a step of the entry grammar raises, it returns None.
C5_NoExceptionEscapes ==
    ParseReturned =>
        /\ ret = None \/ ProfitUpdateSignal \/ EntrySignal
        /\ frame.standard_raised => (frame.profit_message = None /\ ret = None)

\* A text with a first line but no word holding a "/": extract_pair(None)
\* raises inside the entry grammar, and parse returns None.
C5_Witness ==
    /\ ParseReturned
    /\ frame.lines # <<>>
    /\ frame.standard_raised
    /\ ret = None

EntryExample ==
    "BTC/USDT Long x10\nEntry - 50000\nSL - 49000\nTP1 - 51000 (50%)\nTP2 - 52000 (50%)"

\* C6: the entry message BTC/USDT Long x10 / Entry - 50000 / SL - 49000 /
\* TP1 - 51000 (50%) / TP2 - 52000 (50%) parses to an entry signal with
\* symbol BTC/USDT, side LONG, leverage 10, entry 50000.0, stop-loss 49000.0
\* and the take-profit levels (51000.0, 50), (52000.0, 50) in order.
C6_EntryExampleParsed ==
    (ParseReturned /\ args.message = EntryExample) =>
        /\ EntrySignal
        /\ ret.symbol = "BTC/USDT"
        /\ ret.position_type = "LONG"
        /\ ret.leverage = 10
        /\ ret.entry_price = Decimal(50000, 0)
        /\ ret.stop_loss = Num(Decimal(49000, 0))
        /\ ret.take_profit_levels =
              <<[price |-> Decimal(51000, 0), percentage |-> 50],
                [price |-> Decimal(52000, 0), percentage |-> 50]>>

\* First lines that carry PAIR, a side word or glyph and xN, with what they
\* say; Price - P lines with P; Profit - Q% lines with Q.
ProfitFirstLineFields ==
    {[line |-> "BTC/USDT Long x10", symbol |-> "BTC/USDT", side |-> "LONG", leverage |-> 10],
     [line |-> "#PLUME/USDT (Short}, x20)", symbol |-> "PLUME/USDT", side |-> "SHORT",
      leverage |-> 20]}
PriceLineFields ==
    {[line |-> "! Price - 0.1724", price |-> Decimal(1724, 4)],
     [line |-> "Price - 0", price |-> Decimal(0, 0)]}
ProfitLineFields ==
    {[line |-> "! Profit - 60%", target |-> 60],
     [line |-> "Profit - 160%", target |-> 160],
     [line |-> "Profit - 0%", target |-> 0]}

\* the message is the lines f, s and t, followed by any further lines
ShapedAs(message, f, s, t) ==
    LET lines == Lines(message)
    IN  Len(lines) >= 3 /\ lines[1] = f.line /\ lines[2] = s.line /\ lines[3] = t.line

\* r is a profit-update signal with the pair, side and leverage of f, the
\* price of s and the profit target of t
Carries(r, f, s, t) ==
    /\ "is_profit_message" \in DOMAIN r
    /\ r.is_profit_message
    /\ r.symbol = f.symbol
    /\ r.position_type = f.side
    /\ r.leverage = f.leverage
    /\ r.entry_price = s.price
    /\ r.profit_target = t.target

\* C7 as stated: a message whose first line carries PAIR, a side and xN,
\* followed by a Price - P line and a Profit - Q% line, parses to a
\* profit-update signal with that pair, side, leverage N, entry price P and
\* profit target Q, for every P and Q.
C7_ProfitShapeParsed ==
    ParseReturned =>
        \A f \in ProfitFirstLineFields, s \in PriceLineFields, t \in ProfitLineFields :
            ShapedAs(args.message, f, s, t) => Carries(ret, f, s, t)

\* C7 amended: such a message parses to a profit-update signal with that
\* pair, side, leverage N, entry price P and profit target Q when P and Q are
\* not zero; a price or a profit target of zero counts as missing, and parse
\* returns no profit-update signal.
C7_NonZeroProfitShapeParsed ==
    ParseReturned =>
        \A f \in ProfitFirstLineFields, s \in PriceLineFields, t \in ProfitLineFields :
            ShapedAs(args.message, f, s, t) =>
                IF s.price # Decimal(0, 0) /\ t.target # 0
                THEN Carries(ret, f, s, t)
                ELSE ~ProfitUpdateSignal

\* The PLUME message of the specification, parsed.
C7_Witness ==
    /\ ParseReturned
    /\ args.message = "#PLUME/USDT (Short}, x20)\n! Price - 0.1724\n! Profit - 60%"
    /\ ret.is_profit_message
    /\ ret.symbol = "PLUME/USDT"
    /\ ret.position_type = "SHORT"
    /\ ret.leverage = 20
    /\ ret.entry_price = Decimal(1724, 4)
    /\ ret.profit_target = 60

InPercentRange(p) == p \in 1..100

\* C9: every percent field of a signal that parse returns lies in (0, 100]:
\* the profit target of a profit-update signal and the percentage of every
\* take-profit level of an entry signal.
C9_PercentsInRange ==
    /\ ProfitUpdateSignal => InPercentRange(ret.profit_target)
    /\ EntrySignal =>
          \A k \in DOMAIN ret.take_profit_levels :
              InPercentRange(ret.take_profit_levels[k].percentage)

IsDecimal(x) == DOMAIN x = {"m", "e"} /\ x.m \in Nat /\ x.e \in Nat

\* the 1-based positions of the filtered lines that lines[3:7] covers and
\* whose line yields a level
LevelPositions(lines) ==
    {i \in (TP_SLICE_START + 1)..TP_SLICE_STOP :
        i <= Len(lines) /\ ~TakeProfitLevel(lines[i]).raised}

\* levels are those of the lines at the positions, in line order
LevelsOf(levels, lines, positions) ==
    /\ Len(levels) = Cardinality(positions)
    /\ \E at \in [1..Len(levels) -> positions] :
          /\ \A a, b \in 1..Len(levels) : a < b => at[a] < at[b]
          /\ \A k \in 1..Len(levels) : levels[k] = TakeProfitLevel(lines[at[k]]).v

\* C10: every entry signal that parse returns is a complete record: a
\* non-empty symbol, a side in {LONG, SHORT}, an integer leverage >= 1, a
\* numeric entry price and between 1 and 4 take-profit levels, taken in line
\* order from the lines at positions 3..6 (0-based) of the filtered line list
\* and from no other line; only stop_loss may be None.
C10_EntrySignalComplete ==
    EntrySignal =>
        /\ DOMAIN ret = {"symbol", "binance_symbol", "position_type", "leverage", "entry_price",
                         "stop_loss", "take_profit_levels", "original_message",
                         "is_profit_message"}
        /\ ret.symbol # "" /\ ret.binance_symbol # ""
        /\ ret.position_type \in {"LONG", "SHORT"}
        /\ ret.leverage \in Nat \ {0}
        /\ IsDecimal(ret.entry_price)
        /\ ret.stop_loss = None \/ (IsNum(ret.stop_loss) /\ IsDecimal(ret.stop_loss.v))
        /\ Len(ret.take_profit_levels) \in 1..4
        /\ LevelsOf(ret.take_profit_levels, frame.lines, LevelPositions(frame.lines))
        /\ ret.original_message = args.message

\* An entry signal from eight lines, with take-profit lines at positions 2
\* and 7 (0-based) that contribute no level, and no stop-loss.
C10_Witness ==
    /\ EntrySignal
    /\ Len(frame.lines) = 8
    /\ ~TakeProfitLevel(frame.lines[3]).raised
    /\ ~TakeProfitLevel(frame.lines[8]).raised
    /\ Len(ret.take_profit_levels) = 4
    /\ ret.stop_loss = None

\* the profit grammar matches the cleaned text
ProfitMatches(message) == try_parse_profit_message(clean_text(message)) # None

\* the entry grammar, run on the text, yields a signal
EntryAccepts(message) ==
    LET r == StandardBody(message, clean_text(message))
    IN  ~r.raised /\ r.v # None

\* C15: parse tries the profit grammar first: whenever it matches the cleaned
\* text the result is the profit-update signal, also for a text the entry
\* grammar accepts; otherwise the result is the entry signal when the entry
\* grammar accepts the text, and None when it fails too.
C15_ProfitGrammarFirst ==
    ParseReturned =>
        /\ ProfitMatches(args.message) =>
              /\ ProfitUpdateSignal
              /\ ret = try_parse_profit_message(clean_text(args.message))
              /\ ~frame.standard_tried
        /\ (~ProfitMatches(args.message) /\ EntryAccepts(args.message)) =>
              (EntrySignal /\ frame.standard_tried)
        /\ (~ProfitMatches(args.message) /\ ~EntryAccepts(args.message)) => ret = None

\* A text both grammars accept (a pair, a side and x10, a price line, a
\* profit line, then take-profit lines): the profit-update signal comes back.
C15_Witness ==
    /\ ParseReturned
    /\ ProfitMatches(args.message)
    /\ EntryAccepts(args.message)
    /\ ProfitUpdateSignal
    /\ ret.symbol = "BTC/USDT"

\* First lines whose only leverage token has an upper-case X.
UpperXFirstLineFields ==
    {[line |-> "**ETH/USDT** SHORT 20X", symbol |-> "ETH/USDT", side |-> "SHORT",
      leverage |-> 20]}

\* C19: in the profit grammar a first line whose only leverage token is 20X
\* yields leverage 20, as 20x does: with a price line and a profit line (not
\* zero) the message parses to a profit-update signal.
C19_LeverageAnyCase ==
    ParseReturned =>
        \A f \in UpperXFirstLineFields, s \in PriceLineFields, t \in ProfitLineFields :
            (ShapedAs(args.message, f, s, t) /\ s.price # Decimal(0, 0) /\ t.target # 0)
            => Carries(ret, f, s, t)

----------------------------------------------------------------------------
(* Properties of the message handlers *)

\* the runs that are suspended at an await
Suspended(k) == runs[k].pc \in {"await_engine", "await_send"}

\* the runs that handle a profit update and have called the trader
ProfitRun(k) == Suspended(k) /\ runs[k].signal.is_profit_message

\* the signal the parser gave for the message of run k
ParsedSignal(k) == runs[k].parsed

\* C11: a run that handles a profit update calls the trader exactly once:
\* close_position(symbol) when the profit target is 100, and
\* adjust_stop_loss_for_profit_target(symbol, profit_target) for every other
\* target, the symbol being the resolved one; the call stays the only one
\* after it returned.
C11_ExactlyOneEngineOperation ==
    \A k \in DOMAIN runs :
        ProfitRun(k) =>
            LET run == runs[k]
                symbol == IF ~run.lookup.raised /\ run.lookup.v.mapped_symbol # None
                          THEN run.lookup.v.mapped_symbol.v
                          ELSE run.signal.binance_symbol
            IN  /\ Len(run.calls) = 1
                /\ IF run.signal.profit_target = 100
                   THEN run.calls[1] = [op |-> "close_position", symbol |-> symbol]
                   ELSE run.calls[1] = [op |-> "adjust_stop_loss_for_profit_target",
                                        symbol |-> symbol,
                                        profit_target |-> run.signal.profit_target]

\* a profit update with target 100 and one with target 160 have both been
\* handled up to the relay, the trader's calls having returned
C11_Witness ==
    \E j, k \in DOMAIN runs :
        /\ ProfitRun(j) /\ runs[j].pc = "await_send"
        /\ runs[j].signal.profit_target = 100
        /\ runs[j].calls[1].op = "close_position"
        /\ ProfitRun(k) /\ runs[k].pc = "await_send"
        /\ runs[k].signal.profit_target = 160
        /\ runs[k].calls[1].op = "adjust_stop_loss_for_profit_target"

\* C12: nothing is sent to the target channel for a message that is no
\* signal, nor for an entry signal whose execution failed or raised: a run
\* that awaits send_message has a signal, and when it is an entry signal its
\* execution succeeded.
C12_RejectedDroppedSilently ==
    \A k \in DOMAIN runs :
        runs[k].pc = "await_send" =>
            /\ ParsedSignal(k) # None
            /\ ~runs[k].signal.is_profit_message =>
                   ~runs[k].result.raised /\ runs[k].result.v.success

\* C13: the runs do not interleave: while a run is suspended at an await,
\* every run of an earlier message has ended.
C13_OneAtATime ==
    \A j, k \in DOMAIN runs :
        (k < j /\ Suspended(j)) => runs[k].pc = "done"

\* C20: a profit update whose symbol has a mapping (m, r) has the trader
\* called with m and its entry price multiplied by r; without a mapping, or
\* when the lookup raised, the trader is called with the signal's own
\* symbol without the slash and the entry price is the parsed one.
C20_EngineCalledWithMappedSymbol ==
    \A k \in DOMAIN runs :
        ProfitRun(k) =>
            LET run == runs[k]
                parsed == ParsedSignal(k)
            IN  IF ~run.lookup.raised /\ run.lookup.v.mapped_symbol # None
                THEN /\ run.calls[1].symbol = run.lookup.v.mapped_symbol.v
                     /\ run.signal.entry_price
                            = Decimal(parsed.entry_price.m * run.lookup.v.rate.m,
                                      parsed.entry_price.e + run.lookup.v.rate.e)
                ELSE /\ run.calls[1].symbol = RemoveChar(parsed.symbol, "/")
                     /\ run.signal.entry_price = parsed.entry_price

\* PLUME/USDT at 0.1724 was handled under the mapping to 1000PLUMEUSDT with
\* ratio 0.001, and BTC/USDT after a lookup that raised
C20_Witness ==
    \E j, k \in DOMAIN runs :
        /\ ProfitRun(j)
        /\ runs[j].lookup = Ok([mapped_symbol |-> Num("1000PLUMEUSDT"), rate |-> Decimal(1, 3)])
        /\ runs[j].calls[1].symbol = "1000PLUMEUSDT"
        /\ runs[j].signal.entry_price = Decimal(1724, 7)
        /\ ProfitRun(k)
        /\ runs[k].lookup = Raised
        /\ runs[k].calls[1].symbol = "BTCUSDT"
        /\ runs[k].signal.entry_price = Decimal(1724, 4)

\* the runs whose message is still known: suspended, or ended without a call
Known(k) == runs[k] # Done

\* runs j and k got the same text and the same answer of the mapper
SameInput(j, k) ==
    /\ runs[j].message.text = runs[k].message.text
    /\ runs[j].lookup = runs[k].lookup

\* C21: the entry signal of a reply ends its run without a call of the
\* trader and without a relay, and the run of a profit update does not
\* depend on the message being a reply: it is never skipped, and two runs
\* with the same text and mapper answer make the same call on the same
\* signal and, the trader's results being the same, relay the same text.
C21_ReplyEntrySkippedProfitAlike ==
    /\ \A k \in DOMAIN runs :
           Known(k) =>
               IF runs[k].parsed.is_profit_message
               THEN Suspended(k) /\ Len(runs[k].calls) = 1
               ELSE runs[k].message.is_reply =>
                        runs[k].pc = "done" /\ runs[k].calls = <<>>
    /\ \A j, k \in DOMAIN runs :
           (ProfitRun(j) /\ ProfitRun(k) /\ SameInput(j, k)) =>
               /\ runs[j].calls = runs[k].calls
               /\ runs[j].signal = runs[k].signal
               /\ runs[j].result = runs[k].result =>
                      /\ runs[j].pc = runs[k].pc
                      /\ runs[j].formatted_message = runs[k].formatted_message

\* an entry signal came as a reply and its run ended without a call, and a
\* profit update came as a reply and is at the relay after the trader closed
\* the position
C21_Witness ==
    \E j, k \in DOMAIN runs :
        /\ Known(j) /\ ~runs[j].parsed.is_profit_message
        /\ runs[j].message.is_reply
        /\ runs[j].pc = "done" /\ runs[j].calls = <<>>
        /\ ProfitRun(k) /\ runs[k].message.is_reply
        /\ runs[k].pc = "await_send"
        /\ runs[k].calls[1].op = "close_position"
        /\ runs[k].result = Ok([success |-> TRUE])

\* sub occurs in text
Occurs(text, sub) ==
    \E i \in 1..(Len(text) - Len(sub) + 1) : Slice(text, i, i + Len(sub) - 1) = sub

\* the trader answered success
Succeeded(result) == ~result.raised /\ result.v.success

\* C22: the text a profit update relays says "Position closed at 100% profit
\* target" only if close_position returned success for it, and "Stop Loss
\* adjusted" only if adjust_stop_loss_for_profit_target returned success;
\* after a call that failed or raised the run is at the relay all the same,
\* with neither text.
C22_OutcomeTextOnlyOnSuccess ==
    \A k \in DOMAIN runs :
        (ProfitRun(k) /\ runs[k].result # None) =>
            LET run == runs[k]
                closed == Occurs(run.formatted_message, "Position closed at 100% profit target")
                adjusted == Occurs(run.formatted_message, "Stop Loss adjusted")
            IN  /\ run.pc = "await_send"
                /\ closed => run.calls[1].op = "close_position" /\ Succeeded(run.result)
                /\ adjusted =>
                       /\ run.calls[1].op = "adjust_stop_loss_for_profit_target"
                       /\ Succeeded(run.result)
                /\ ~Succeeded(run.result) => ~closed /\ ~adjusted

\* one profit update is at the relay with the text of the closed position,
\* another after its stop-loss adjustment raised, without a text about it
C22_Witness ==
    \E j, k \in DOMAIN runs :
        /\ ProfitRun(j) /\ runs[j].pc = "await_send"
        /\ Succeeded(runs[j].result)
        /\ Occurs(runs[j].formatted_message, "Position closed at 100% profit target")
        /\ ProfitRun(k) /\ runs[k].pc = "await_send"
        /\ runs[k].calls[1].op = "adjust_stop_loss_for_profit_target"
        /\ runs[k].result = Raised
        /\ ~Occurs(runs[k].formatted_message, "Stop Loss adjusted")

----------------------------------------------------------------------------
(* Properties of the formatter *)

\* a text of the formatter or of the relay has been given to the parser
FedBack == op = "relay" /\ frame # NoFrame

\* C23: no text of the relay is a signal: the parser returns None for what
\* the formatter returned for a signal (entry or profit update, entry
\* notifications enabled or disabled) and for what the handler sent to the
\* target channel, the outcome text appended and the symbol mapped.
C23_RelayIsNoSignal ==
    FedBack => frame.signal = None

\* the text sent for a profit update, with the mapped symbol and the text of
\* the closed position, came to the parser
C23_Witness ==
    /\ FedBack
    /\ ret.signal.is_profit_message
    /\ ret.relayed = Num(frame.text)
    /\ Occurs(frame.text, "#Bybit #1000BTCUSDT")
    /\ Occurs(frame.text, "Position closed at 100% profit target")
    /\ frame.signal = None

====
